---------------------------- MODULE Spec2Model ----------------------------
(***************************************************************************)
(* MyBudget: budget_analysis.py, collate_all_periods.py, collate_periods.py *)
(*                                                                         *)
(* Money amounts are integers (whole dollars).  A float that is the result *)
(* of a division is kept exactly: a rational n/d with d > 0, or one of the  *)
(* IEEE specials inf, -inf, nan that numpy produces on a division by zero.  *)
(***************************************************************************)
EXTENDS Integers, Sequences, FiniteSets, TLC

VARIABLES
    tx,        \* categorize_tx: the record set it is given
    grouped,   \* categorize_tx: what it returned
    disk,      \* the transaction exports on disk, by path
    summary,   \* the summary file (a_summary_file)
    report,    \* the report file (a_report_file)
    last,      \* the outcome of the last call
    hist,      \* the write_reports calls that returned, in call order
    series,    \* summarize_all_periods: the DataFrame it returned last
    frames,    \* read_tx_file: the record sets it returned
    running    \* the write_reports invocations in progress, each at its step

vars == <<tx, grouped, disk, summary, report, last, hist, series, frames, running>>

\* ------------------------------------------------------------- bounds
MaxAmt == 1          \* |amount| of one transaction record
MaxLen == 3          \* records in one record set given to categorize_tx
MaxCalls == 2        \* calls of a main that reach write_reports
MaxFiles == 2        \* transaction files named in one call of collate_all_periods.main
MaxPeriods == 2      \* period rows in the summary file before the first recompute
MaxRecompute == 2    \* calls of summarize_all_periods that returned
MaxRows == 2         \* physical rows of an export handed to read_tx_file alone
MaxProcs == 2        \* write_reports invocations running at the same time

\* ------------------------------------------------------------- floats
Abs(x) == IF x < 0 THEN -x ELSE x

\* A cell of a table or of a text file: a string, or a float.
Str(s) == [k |-> "str", s |-> s, n |-> 0, d |-> 1]
Fin(n, d) == [k |-> "fin", s |-> "", n |-> n, d |-> d]
PosInf == [k |-> "inf", s |-> "", n |-> 0, d |-> 1]
NegInf == [k |-> "-inf", s |-> "", n |-> 0, d |-> 1]
NaN == [k |-> "nan", s |-> "", n |-> 0, d |-> 1]

IsFinite(x) == x.k = "fin"

\* numpy / pandas true division of a by b: no exception on b = 0
NpDiv(a, b) ==
    IF b > 0 THEN Fin(a, b)
    ELSE IF b < 0 THEN Fin(-a, -b)
    ELSE IF a > 0 THEN PosInf
    ELSE IF a < 0 THEN NegInf
    ELSE NaN

\* x = n/d as numbers (IEEE: nan equals nothing, itself included)
FloatEq(x, y) ==
    IF x.k = "nan" \/ y.k = "nan" THEN FALSE
    ELSE IF x.k = "fin" /\ y.k = "fin" THEN x.n * y.d = y.n * x.d
    ELSE x.k = y.k

\* "{:.2f}".format(x): x rounded to hundredths (the nearest, a tie to the even one)
RoundDiv(n, d) ==
    LET q == n \div d
        r == n % d
    IN IF 2 * r < d THEN q
       ELSE IF 2 * r > d THEN q + 1
       ELSE IF q % 2 = 0 THEN q ELSE q + 1

Fmt2(x) == IF x.k = "fin" THEN Fin(RoundDiv(100 * x.n, x.d), 100) ELSE x

Num(v) == Fin(v, 1)

FloatNeg(x) ==
    IF x.k = "fin" THEN Fin(-x.n, x.d)
    ELSE IF x.k = "inf" THEN NegInf
    ELSE IF x.k = "-inf" THEN PosInf ELSE NaN

FloatLt0(x) == (x.k = "fin" /\ x.n < 0) \/ x.k = "-inf"

\* 100.0 * x / y of two finite floats
FloatPct(x, y) ==
    IF x.k = "fin" /\ y.k = "fin"
    THEN (IF x.d = y.d THEN NpDiv(100 * x.n, y.n) ELSE NpDiv(100 * x.n * y.d, y.n * x.d))
    ELSE NaN

FloatAbs(x) ==
    IF x.k = "fin" THEN Fin(Abs(x.n), x.d)
    ELSE IF x.k = "nan" THEN NaN ELSE PosInf

FloatAdd(x, y) ==
    IF x.k = "nan" \/ y.k = "nan" THEN NaN
    ELSE IF x.k = "fin" /\ y.k = "fin" THEN
        (IF x.d = y.d THEN Fin(x.n + y.n, x.d) ELSE Fin(x.n * y.d + y.n * x.d, x.d * y.d))
    ELSE IF x.k = "fin" THEN y
    ELSE IF y.k = "fin" THEN x
    ELSE IF x.k = y.k THEN x ELSE NaN

\* ------------------------------------------------------------- frames
\* A DataFrame: its column names in order, and its rows, each a function
\* from the column names to the cell values.
CategoryOrder == <<"Gifts", "Utilities">>     \* ascending by name
Categories == {CategoryOrder[i] : i \in 1..Len(CategoryOrder)}
Amounts == (-MaxAmt)..MaxAmt

BA_cols == <<"Category", "Amount">>
CAP_cols == <<"Category", "Amount [$]">>

RECURSIVE SeqsUpTo(_, _)
SeqsUpTo(S, n) ==
    IF n = 0 THEN {<<>>}
    ELSE LET shorter == SeqsUpTo(S, n - 1)
         IN shorter \cup {Append(s, x) : s \in {t \in shorter : Len(t) = n - 1}, x \in S}

ColSet(cols) == {cols[i] : i \in 1..Len(cols)}
HasCol(df, c) == c \in ColSet(df.cols)

EmptyDataFrame == [cols |-> <<>>, rows |-> <<>>]

\* a record set over the columns `cols` = (category column, amount column)
RecordSets(cols, n) ==
    {[cols |-> cols, rows |-> r] :
        r \in SeqsUpTo({(cols[1] :> c) @@ (cols[2] :> a) : c \in Categories, a \in Amounts}, n)}

\* frames that lack the category column: pd.DataFrame(), and amounts alone
NoCategoryFrames ==
    {EmptyDataFrame} \cup
    {[cols |-> <<"Amount">>, rows |-> r] : r \in SeqsUpTo({("Amount" :> a) : a \in Amounts}, 1)}

\* np.sum of a column: a missing (NaN) amount is skipped
RECURSIVE SumCol(_, _)
SumCol(rows, c) ==
    IF rows = <<>> THEN 0
    ELSE (IF c \in DOMAIN rows[1] THEN rows[1][c] ELSE 0) + SumCol(Tail(rows), c)

\* ------------------------------------------------------- categorize_tx
\* groupby(key, sort=False): the distinct keys in the order they first appear
RECURSIVE GroupKeysFirstSeen(_, _)
GroupKeysFirstSeen(df, key) ==
    IF df.rows = <<>> THEN <<>>
    ELSE LET n == Len(df.rows)
             before == GroupKeysFirstSeen([df EXCEPT !.rows = SubSeq(df.rows, 1, n - 1)], key)
         IN IF \E i \in 1..Len(before) : before[i] = df.rows[n][key] THEN before
            ELSE Append(before, df.rows[n][key])

\* DataFrame.groupby(key): the distinct keys, sorted ascending
GroupKeys(df, key) ==
    SelectSeq(CategoryOrder, LAMBDA c : \E i \in 1..Len(df.rows) : df.rows[i][key] = c)

\* an aggregate that keeps the first row of the group only
GroupFirst(df, key, c, amt) ==
    SelectSeq(df.rows, LAMBDA r : r[key] = c)[1][amt]

\* .aggregate(np.sum): the sum of the rows of one group
GroupSum(df, key, c, amt) ==
    SumCol(SelectSeq(df.rows, LAMBDA r : r[key] = c), amt)

\* a percentage taken of the signed class total
ContributionSigned(group_total, class_total) ==
    NpDiv(100 * group_total, class_total)

\* 100 * grouped_tx[amount] / np.abs(np.sum(a_tx[amount])), one category
Contribution(group_total, class_total) ==
    NpDiv(100 * group_total, Abs(class_total))

KeyError == [err |-> "KeyError", index |-> <<>>, amount |-> <<>>, pct |-> <<>>]

\* a categorizer that answers a missing column with an empty summary
categorize_tx_default(a_tx, a_cols) ==
    IF ~HasCol(a_tx, a_cols[1]) \/ ~HasCol(a_tx, a_cols[2])
    THEN [err |-> "none", index |-> <<>>, amount |-> <<>>, pct |-> <<>>]
    ELSE LET keys == GroupKeys(a_tx, a_cols[1])
             total == SumCol(a_tx.rows, a_cols[2])
             amount == [c \in ColSet(keys) |-> GroupSum(a_tx, a_cols[1], c, a_cols[2])]
         IN [err |-> "none",
             index |-> keys,
             amount |-> amount,
             pct |-> [c \in ColSet(keys) |-> Contribution(amount[c], total)]]

categorize_tx(a_tx, a_cols) ==
    IF ~HasCol(a_tx, a_cols[1]) \/ ~HasCol(a_tx, a_cols[2]) THEN KeyError
    ELSE LET keys == GroupKeys(a_tx, a_cols[1])
             total == SumCol(a_tx.rows, a_cols[2])
             amount == [c \in ColSet(keys) |-> GroupSum(a_tx, a_cols[1], c, a_cols[2])]
         IN [err |-> "none",
             index |-> keys,
             amount |-> amount,
             pct |-> [c \in ColSet(keys) |-> Contribution(amount[c], total)]]

\* ------------------------------------------------------ read_tx_file
\* A transaction export as pd.read_csv sees it after the skipped lines: the
\* column names (a repeated name gets ".1", ".2") and the physical rows.  A
\* category cell is a string, "" when the field is blank; an amount cell is the
\* characters of the field, <<>> when it is blank.
DupCols(k) ==
    IF k = 0 THEN <<"Category", "Amount">>
    ELSE IF k = 1 THEN <<"Category.1", "Amount.1">>
    ELSE <<"Category.2", "Amount.2">>

RECURSIVE BlockCols(_)
BlockCols(nblocks) ==
    IF nblocks = 0 THEN <<>> ELSE BlockCols(nblocks - 1) \o DupCols(nblocks - 1)

DigitVal(c) ==
    CASE c = "0" -> 0 [] c = "1" -> 1 [] c = "2" -> 2 [] c = "3" -> 3 [] c = "4" -> 4
      [] c = "5" -> 5 [] c = "6" -> 6 [] c = "7" -> 7 [] c = "8" -> 8 [] c = "9" -> 9
Digits == {"0", "1", "2", "3", "4", "5", "6", "7", "8", "9"}

\* .replace('[\$,]', '', regex=True): the currency symbols are removed
StripCurrency(text) == SelectSeq(text, LAMBDA c : c \notin {"$", ","})

RECURSIVE DigitsValue(_)
DigitsValue(text) ==
    IF text = <<>> THEN 0
    ELSE 10 * DigitsValue(SubSeq(text, 1, Len(text) - 1)) + DigitVal(text[Len(text)])

AllDigits(text) == text # <<>> /\ \A i \in 1..Len(text) : text[i] \in Digits

\* pd.to_numeric of one string: a number, NaN for the empty string, or ValueError
IsNumeral(text) ==
    \/ text = <<>>
    \/ AllDigits(text)
    \/ (text # <<>> /\ text[1] = "-" /\ AllDigits(Tail(text)))

to_numeric(text) ==
    IF text[1] = "-" THEN -DigitsValue(Tail(text)) ELSE DigitsValue(text)

\* raw_df[cols] with the columns renamed to (Category, Amount)
Block(raw, cols) ==
    [i \in 1..Len(raw.rows) |->
        ("Category" :> raw.rows[i][cols[1]]) @@ ("Amount" :> raw.rows[i][cols[2]])]

\* .dropna(): the rows with a blank category or a blank amount are dropped
dropna(rows) == SelectSeq(rows, LAMBDA r : r["Category"] # "" /\ r["Amount"] # <<>>)

Parsable(rows) == \A i \in 1..Len(rows) : IsNumeral(StripCurrency(rows[i]["Amount"]))

\* the amount column replaced by its numbers, under the column name amt; a row
\* whose amount became NaN (nothing left of the text) has no entry for amt
Numeric(rows, amt) ==
    [i \in 1..Len(rows) |->
        IF StripCurrency(rows[i]["Amount"]) = <<>> THEN ("Category" :> rows[i]["Category"])
        ELSE ("Category" :> rows[i]["Category"]) @@
             (amt :> to_numeric(StripCurrency(rows[i]["Amount"])))]

NoneRunning == <<>>

NotRead ==
    [err |-> "pending", income |-> EmptyDataFrame, expenses |-> EmptyDataFrame,
     savings |-> EmptyDataFrame]

ReadError(e) ==
    [err |-> e, income |-> EmptyDataFrame, expenses |-> EmptyDataFrame,
     savings |-> EmptyDataFrame]

\* budget_analysis.read_tx_file, a_ord = True: (expenses, income)
BA_read_tx_file(a_tx_file) ==
    LET raw == disk[a_tx_file]
    IN IF ~raw.exists THEN ReadError("FileNotFoundError")
       ELSE IF ~(ColSet(DupCols(0)) \cup ColSet(DupCols(1)) \subseteq ColSet(raw.cols))
       THEN ReadError("KeyError")
       ELSE LET expenses == dropna(Block(raw, DupCols(0)))
                income == dropna(Block(raw, DupCols(1)))
            IN IF ~Parsable(expenses) \/ ~Parsable(income) THEN ReadError("ValueError")
               ELSE [err |-> "none",
                     expenses |-> [cols |-> BA_cols, rows |-> Numeric(expenses, "Amount")],
                     income |-> [cols |-> BA_cols, rows |-> Numeric(income, "Amount")],
                     savings |-> EmptyDataFrame]

\* collate_all_periods.read_tx_file: (income, expenses, savings)
CAP_read_tx_file(a_tx_file) ==
    LET raw == disk[a_tx_file]
    IN IF ~raw.exists THEN ReadError("FileNotFoundError")
       ELSE IF ~(ColSet(BlockCols(3)) \subseteq ColSet(raw.cols)) THEN ReadError("KeyError")
       ELSE LET expenses == dropna(Block(raw, DupCols(0)))
                income == dropna(Block(raw, DupCols(1)))
                savings == dropna(Block(raw, DupCols(2)))
            IN IF ~Parsable(expenses) \/ ~Parsable(income) \/ ~Parsable(savings)
               THEN ReadError("ValueError")
               ELSE [err |-> "none",
                     expenses |-> [cols |-> CAP_cols, rows |-> Numeric(expenses, "Amount [$]")],
                     income |-> [cols |-> CAP_cols, rows |-> Numeric(income, "Amount [$]")],
                     savings |-> [cols |-> CAP_cols, rows |-> Numeric(savings, "Amount [$]")]]

\* ------------------------------------------------------ the two files
Absent == [exists |-> FALSE, lines |-> <<>>]
NoReport == [exists |-> FALSE, lines |-> <<>>, tables |-> <<>>]

BA_header ==
    <<Str("Time Period"), Str("Income [$]"), Str("Expenses [$]"), Str("Savings [$]"),
      Str("Net Worth [$]"), Str("pct-savings [%]")>>

CAP_header ==
    <<Str("Time period"), Str("Income [$]"), Str("Expenses [$]"),
      Str("Utilized savings [$]"), Str("Unutilzed savings [$]"), Str("pct-savings [%]"),
      Str("Savings utilization ratio [%]")>>

\* a header written whether or not the file exists
WriteHeader(sf, header) == [exists |-> TRUE, lines |-> <<header>>]

\* a header written through a file opened for appending
AppendHeader(sf, header) == [exists |-> TRUE, lines |-> Append(sf.lines, header)]

\* open(a_summary_file, 'w') and sf.write(header): whatever the file held is gone
CreateWithHeader(sf, header) == [exists |-> TRUE, lines |-> <<header>>]

\* if not os.path.exists(a_summary_file): open(.., 'w') and write the header
EnsureHeader(sf, header) ==
    IF ~sf.exists THEN [exists |-> TRUE, lines |-> <<header>>] ELSE sf

\* open(a_summary_file, 'a') and write one line
AppendLine(sf, line) == [exists |-> TRUE, lines |-> Append(sf.lines, line)]

NoScalars ==
    [period |-> "", prev_bal |-> 0, tot_inc |-> 0, tot_exp |-> 0, tot_sav |-> 0,
     net_sav |-> 0, xtra_sav |-> 0, net_worth |-> 0, sav_pct |-> NaN, sav_util |-> NaN]

WriteError(e, sf, rf) ==
    [err |-> e, summary |-> sf, report |-> rf, warns |-> {}, scalars |-> NoScalars]

\* the warnings numpy emits on a float division
DivWarnings(a, b) == IF b = 0 THEN {"RuntimeWarning"} ELSE {}

\* ------------------------------------- budget_analysis.write_reports
\* savings taken as the sum of income and expenses
NetSavingsAdded(tot_inc, tot_exp) == tot_inc + tot_exp

\* savings = tot_inc - tot_exp
NetSavings(tot_inc, tot_exp) == tot_inc - tot_exp

BA_write_reports(sf, rf, a_period, a_prev_bal, a_inc, a_exp) ==
    IF ~HasCol(a_inc, "Amount") \/ ~HasCol(a_exp, "Amount") THEN WriteError("KeyError", sf, rf)
    ELSE
    LET tot_inc == SumCol(a_inc.rows, "Amount")
        tot_exp == SumCol(a_exp.rows, "Amount")
        savings == NetSavings(tot_inc, tot_exp)
        warns == (IF tot_inc < 0 THEN {"income"} ELSE {}) \cup DivWarnings(savings, tot_inc)
        sav_pct == NpDiv(100 * savings, tot_inc)
        net_worth == a_prev_bal + savings
        grp_inc == categorize_tx(a_inc, BA_cols)
        grp_exp == categorize_tx(a_exp, BA_cols)
    IN IF grp_inc.err # "none" \/ grp_exp.err # "none" THEN WriteError("KeyError", sf, rf)
       ELSE [err |-> "none",
             report |->
                 [exists |-> TRUE,
                  lines |->
                      <<<<"Budget Report for", Str(a_period)>>,
                        <<"Starting balance", Fmt2(Num(a_prev_bal))>>,
                        <<"Total income", Fmt2(Num(tot_inc))>>,
                        <<"Total expenses", Fmt2(Num(tot_exp))>>,
                        <<"Net savings", Fmt2(Num(savings))>>,
                        <<"Net worth", Fmt2(Num(net_worth))>>,
                        <<"Savings as a % of income", Fmt2(sav_pct)>>>>
                      \o (IF tot_inc < 0
                          THEN <<<<"Since total income is negative, %-savings above invalid!",
                                   Str("")>>>>
                          ELSE <<>>),
                  tables |-> <<grp_inc, grp_exp>>],
             summary |->
                 AppendLine(EnsureHeader(sf, BA_header),
                            <<Str(a_period), Fmt2(Num(tot_inc)), Fmt2(Num(tot_exp)),
                              Fmt2(Num(savings)), Fmt2(Num(net_worth)), Fmt2(sav_pct)>>),
             warns |-> warns,
             scalars |->
                 [period |-> a_period, prev_bal |-> a_prev_bal, tot_inc |-> tot_inc,
                  tot_exp |-> tot_exp, tot_sav |-> 0, net_sav |-> savings, xtra_sav |-> 0,
                  net_worth |-> net_worth, sav_pct |-> sav_pct, sav_util |-> NaN]]

\* ------------------------------------- collate_all_periods.write_reports
\* np.sum(a_grp[a_amt_colname]) of a grouped frame
GroupedTotal(grp) == SumCol([i \in 1..Len(grp.index) |-> ("a" :> grp.amount[grp.index[i]])], "a")

CAP_write_reports(sf, rf, a_period, a_grp_inc, a_grp_exp, a_grp_sav) ==
    LET tot_inc == GroupedTotal(a_grp_inc)
        tot_exp == GroupedTotal(a_grp_exp)
        tot_sav == GroupedTotal(a_grp_sav)
        net_sav == NetSavings(tot_inc, tot_exp)
        xtra_sav == net_sav - tot_sav
        sav_pct == IF tot_inc < 0 THEN NegInf ELSE NpDiv(100 * net_sav, tot_inc)
        sav_util == IF net_sav < 0 THEN NegInf ELSE NpDiv(100 * tot_sav, net_sav)
        warns == (IF tot_inc < 0 THEN {"income"} ELSE DivWarnings(net_sav, tot_inc))
                 \cup (IF net_sav < 0 THEN {"net savings"} ELSE DivWarnings(tot_sav, net_sav))
    IN [err |-> "none",
        report |->
            [exists |-> TRUE,
             lines |->
                 <<<<"Budget Report for", Str(a_period)>>,
                   <<"Total income", Fmt2(Num(tot_inc))>>,
                   <<"Total expenses", Fmt2(Num(tot_exp))>>,
                   <<"Net savings", Fmt2(Num(net_sav))>>,
                   <<"Utilized savings", Fmt2(Num(tot_sav))>>,
                   <<"Unutilized savings", Fmt2(Num(xtra_sav))>>,
                   <<"Net savings as a % of income", Fmt2(sav_pct)>>,
                   <<"Net savings utilization ratio", Fmt2(sav_util)>>>>,
             tables |-> <<a_grp_inc, a_grp_exp, a_grp_sav>>],
        summary |->
            AppendLine(EnsureHeader(sf, CAP_header),
                       <<Str(a_period), Fmt2(Num(tot_inc)), Fmt2(Num(tot_exp)),
                         Fmt2(Num(tot_sav)), Fmt2(Num(xtra_sav)), Fmt2(sav_pct),
                         Fmt2(sav_util)>>),
        warns |-> warns,
        scalars |->
            [period |-> a_period, prev_bal |-> 0, tot_inc |-> tot_inc, tot_exp |-> tot_exp,
             tot_sav |-> tot_sav, net_sav |-> net_sav, xtra_sav |-> xtra_sav,
             net_worth |-> 0, sav_pct |-> sav_pct, sav_util |-> sav_util]]

NotCalled == [err |-> "pending", index |-> <<>>, amount |-> <<>>, pct |-> <<>>]

\* ---------------------------------------------------------- read_csv
\* pd.read_csv of the summary file: blank lines are skipped, the first line
\* names the columns, a shorter line is padded with NaN and a longer line is
\* a ParserError.  (The first data line of a file the mains wrote has as many
\* fields as the header.)
PadLine(line, n) == [j \in 1..n |-> IF j <= Len(line) THEN line[j] ELSE NaN]

read_csv(f) ==
    LET data == SelectSeq(f.lines, LAMBDA l : l # <<>>)
    IN IF ~f.exists THEN [err |-> "FileNotFoundError", columns |-> <<>>, rows |-> <<>>]
       ELSE IF data = <<>> THEN [err |-> "EmptyDataError", columns |-> <<>>, rows |-> <<>>]
       ELSE IF \E i \in 2..Len(data) : Len(data[i]) > Len(data[1])
       THEN [err |-> "ParserError", columns |-> <<>>, rows |-> <<>>]
       ELSE [err |-> "none",
             columns |-> data[1],
             rows |-> [i \in 1..(Len(data) - 1) |-> PadLine(data[i + 1], Len(data[1]))]]

\* budget_analysis.plot_overall_summary: what reading the summary file raises
plot_overall_summary(sf) == read_csv(sf).err

\* ------------------------------ collate_periods.summarize_all_periods
NoSeries == [err |-> "pending", columns |-> <<>>, rows |-> <<>>, net_worth |-> <<>>]

\* the position of the column called name, 0 when there is none
ColIndex(columns, name) ==
    IF \E i \in 1..Len(columns) : columns[i] = Str(name)
    THEN CHOOSE i \in 1..Len(columns) : columns[i] = Str(name)
    ELSE 0

\* Series.sum() of the first k cells, NaN skipped
RECURSIVE SumTo(_, _, _)
SumTo(rows, col, k) ==
    IF k = 0 THEN Fin(0, 100)
    ELSE IF rows[k][col].k = "nan" THEN SumTo(rows, col, k - 1)
    ELSE FloatAdd(SumTo(rows, col, k - 1), rows[k][col])

\* the sum of the whole column at every row
ColumnSum(rows, col, k) == SumTo(rows, col, Len(rows))

\* Series.cumsum() at row k: NaN where the cell is NaN
CumSum(rows, col, k) == IF rows[k][col].k = "nan" THEN NaN ELSE SumTo(rows, col, k)

\* open(a_summary_file, 'a'); sf.write("\nTotal,...\n"): an empty line, then the line
AppendTotal(sf, total) == AppendLine(AppendLine(sf, <<>>), total)

SeriesError(e, sf) ==
    [err |-> e, summary |-> sf, warns |-> {},
     ret |-> [err |-> e, columns |-> <<>>, rows |-> <<>>, net_worth |-> <<>>]]

summarize_all_periods(a_initial_net_worth, sf) ==
    LET summary_df == read_csv(sf)
        inc == ColIndex(summary_df.columns, "Income [$]")
        exp == ColIndex(summary_df.columns, "Expenses [$]")
        sav == ColIndex(summary_df.columns, "Utilized savings [$]")
        n == Len(summary_df.rows)
    IN IF summary_df.err # "none" THEN SeriesError(summary_df.err, sf)
       ELSE IF inc = 0 \/ exp = 0 \/ sav = 0 THEN SeriesError("KeyError", sf)
       ELSE
       LET total_income == SumTo(summary_df.rows, inc, n)
           total_expenses == SumTo(summary_df.rows, exp, n)
           total_savings == SumTo(summary_df.rows, sav, n)
           net_savings == FloatAdd(total_income, FloatNeg(total_expenses))
           extra_savings == FloatAdd(net_savings, FloatNeg(total_savings))
           net_sav_pct == IF FloatLt0(total_income) THEN NegInf
                          ELSE FloatPct(net_savings, total_income)
           sav_util == IF FloatLt0(net_savings) THEN NegInf
                       ELSE FloatPct(total_savings, net_savings)
       IN [err |-> "none",
           summary |->
               AppendTotal(sf, <<Str("Total"), Fmt2(total_income), Fmt2(total_expenses),
                                 Fmt2(total_savings), Fmt2(extra_savings),
                                 Fmt2(net_sav_pct), Fmt2(sav_util)>>),
           warns |-> (IF FloatLt0(total_income) THEN {"income"}
                      ELSE IF total_income.n = 0 THEN {"RuntimeWarning"} ELSE {})
                     \cup (IF FloatLt0(net_savings) THEN {"net savings"}
                           ELSE IF net_savings.n = 0 THEN {"RuntimeWarning"} ELSE {}),
           ret |->
               [err |-> "none",
                columns |-> Append(summary_df.columns, Str("Net worth [$]")),
                rows |-> summary_df.rows,
                net_worth |->
                    [k \in 1..n |->
                        FloatAdd(FloatAdd(Num(a_initial_net_worth),
                                          CumSum(summary_df.rows, inc, k)),
                                 FloatNeg(CumSum(summary_df.rows, exp, k)))]]]

\* ------------------------------------------------------------ the mains
Outcome(op, err, wrote, warns, scalars) ==
    [op |-> op, err |-> err, wrote |-> wrote, warns |-> warns, scalars |-> scalars]

Failed(op, err) ==
    [summary |-> summary, report |-> report, last |-> Outcome(op, err, FALSE, {}, NoScalars)]

\* a main that reads the transaction file before it looks at the balance
BA_main_ReadFirst(a_tx_file, a_period, a_prev_bal) ==
    LET rd == BA_read_tx_file(a_tx_file)
    IN IF rd.err # "none" THEN Failed("budget_analysis.main", rd.err)
       ELSE IF a_prev_bal.k = "str" THEN Failed("budget_analysis.main", "AssertionError")
       ELSE LET wr == BA_write_reports(summary, report, a_period, a_prev_bal.n,
                                       rd.income, rd.expenses)
            IN [summary |-> wr.summary, report |-> wr.report,
                last |-> Outcome("budget_analysis.main", wr.err, wr.err = "none",
                                 wr.warns, wr.scalars)]

\* budget_analysis.main
BA_main_body(a_tx_file, a_period, a_prev_bal) ==
    IF a_prev_bal.k = "str" THEN Failed("budget_analysis.main", "AssertionError")
    ELSE LET rd == BA_read_tx_file(a_tx_file)
         IN IF rd.err # "none" THEN Failed("budget_analysis.main", rd.err)
            ELSE LET wr == BA_write_reports(summary, report, a_period, a_prev_bal.n,
                                            rd.income, rd.expenses)
                 IN IF wr.err # "none" THEN Failed("budget_analysis.main", wr.err)
                    ELSE [summary |-> wr.summary,
                          report |-> wr.report,
                          last |-> Outcome("budget_analysis.main",
                                           plot_overall_summary(wr.summary), TRUE,
                                           wr.warns, wr.scalars)]

\* inc.append(i): the rows of i after the rows of inc
append(df, other) ==
    [cols |-> IF df.cols = <<>> THEN other.cols ELSE df.cols, rows |-> df.rows \o other.rows]

\* a loop that skips a transaction file it cannot read
RECURSIVE ReadAllSkipping(_, _)
ReadAllSkipping(tx_files, acc) ==
    IF tx_files = <<>> THEN acc
    ELSE LET rd == CAP_read_tx_file(tx_files[1])
         IN IF rd.err # "none" THEN ReadAllSkipping(Tail(tx_files), acc)
            ELSE ReadAllSkipping(Tail(tx_files),
                                 [err |-> "none",
                                  income |-> append(acc.income, rd.income),
                                  expenses |-> append(acc.expenses, rd.expenses),
                                  savings |-> append(acc.savings, rd.savings)])

\* the loop of collate_all_periods.main over a_args.tx_files
RECURSIVE ReadAll(_, _)
ReadAll(tx_files, acc) ==
    IF tx_files = <<>> THEN acc
    ELSE LET rd == CAP_read_tx_file(tx_files[1])
         IN IF rd.err # "none" THEN rd
            ELSE ReadAll(Tail(tx_files),
                         [err |-> "none",
                          income |-> append(acc.income, rd.income),
                          expenses |-> append(acc.expenses, rd.expenses),
                          savings |-> append(acc.savings, rd.savings)])

\* collate_all_periods.main
CAP_main_body(tx_files, a_period) ==
    LET rd == ReadAll(tx_files, ReadError("none"))
    IN IF rd.err # "none" THEN Failed("collate_all_periods.main", rd.err)
       ELSE LET grp_inc == categorize_tx(rd.income, CAP_cols)
                grp_exp == categorize_tx(rd.expenses, CAP_cols)
                grp_sav == categorize_tx(rd.savings, CAP_cols)
            IN IF grp_inc.err # "none" THEN Failed("collate_all_periods.main", grp_inc.err)
               ELSE IF grp_exp.err # "none" THEN Failed("collate_all_periods.main", grp_exp.err)
               ELSE IF grp_sav.err # "none" THEN Failed("collate_all_periods.main", grp_sav.err)
               ELSE LET wr == CAP_write_reports(summary, report, a_period,
                                               grp_inc, grp_exp, grp_sav)
                    IN [summary |-> wr.summary,
                        report |-> wr.report,
                        last |-> Outcome("collate_all_periods.main", "none", TRUE,
                                         wr.warns, wr.scalars)]

\* ------------------------------------------------- the inputs of a main
Periods == {"Jan", "Feb"}
TxPaths == {"Transactions.csv", "TwoBlocks.csv", "non_existent_file"}
PrevBalances == {Num(MaxAmt), Str("t9djafo")}

DigitChar(n) ==
    CASE n = 0 -> "0" [] n = 1 -> "1" [] n = 2 -> "2" [] n = 3 -> "3" [] n = 4 -> "4"
      [] n = 5 -> "5" [] n = 6 -> "6" [] n = 7 -> "7" [] n = 8 -> "8" [] n = 9 -> "9"

\* an amount as the export writes it: $1, -$1
CurrencyText(v) == IF v < 0 THEN <<"-", "$", DigitChar(-v)>> ELSE <<"$", DigitChar(v)>>

BlockCategory(k) == IF k = 0 THEN "Utilities" ELSE "Gifts"

NoFile == [exists |-> FALSE, cols |-> <<>>, rows |-> <<>>]

RECURSIVE ExportRow(_, _)
ExportRow(nblocks, texts) ==
    IF nblocks = 0 THEN <<>>
    ELSE ExportRow(nblocks - 1, texts)
         @@ (DupCols(nblocks - 1)[1] :> BlockCategory(nblocks - 1))
         @@ (DupCols(nblocks - 1)[2] :> texts[nblocks])

\* an export of one physical row with nblocks column blocks
Export(nblocks, texts) ==
    [exists |-> TRUE, cols |-> BlockCols(nblocks), rows |-> <<ExportRow(nblocks, texts)>>]

AmountTexts == {CurrencyText(v) : v \in Amounts}

\* The exports on disk when several periods are collated:
\*   Transactions.csv  expenses Utilities $1 and Gifts $1, income Gifts $3,
\*                     savings Gifts $1; the second physical row holds an
\*                     expense only
\*   TwoBlocks.csv     expenses and income only, the income amount no number
\* and no file of the third name.
Fixtures ==
    [p \in TxPaths |->
        IF p = "Transactions.csv" THEN
            [exists |-> TRUE, cols |-> BlockCols(3),
             rows |-> <<ExportRow(3, <<CurrencyText(1), CurrencyText(3), CurrencyText(1)>>),
                        [c \in ColSet(BlockCols(3)) |->
                            IF c = "Category" THEN "Gifts"
                            ELSE IF c = "Amount" THEN CurrencyText(1)
                            ELSE IF c \in {"Category.1", "Category.2"} THEN "" ELSE <<>>]>>]
        ELSE IF p = "TwoBlocks.csv" THEN Export(2, <<CurrencyText(1), <<"x">>>>)
        ELSE NoFile]

\* the exports one period is computed from: every amount in every block, fewer
\* blocks than the tool expects, expenses of $5,460 against an income of $1,500,
\* and an amount that is no number in one block
Exports ==
    UNION {{Export(b, t) : t \in [1..b -> AmountTexts]} : b \in 1..3}
    \cup {Export(3, <<<<"$", "5", ",", "4", "6", "0">>, <<"$", "1", ",", "5", "0", "0">>,
                      CurrencyText(MaxAmt)>>)}
    \cup {Export(3, [k \in 1..3 |-> IF k = j THEN <<"x">> ELSE CurrencyText(MaxAmt)]) :
            j \in 1..3}

\* ------------------------------------------------- before any call
NoArgs == [tx_files |-> <<>>, period |-> "", prev_bal |-> Num(0)]
NoCall ==
    [op |-> "none", err |-> "none", wrote |-> FALSE, warns |-> {}, scalars |-> NoScalars,
     args |-> NoArgs]
NoDisk == <<>>

\* --------------------------------------- specification: categorize_tx
CatInputs ==
    RecordSets(BA_cols, MaxLen) \cup RecordSets(CAP_cols, MaxLen) \cup NoCategoryFrames

InitCat ==
    /\ tx \in CatInputs
    /\ grouped = NotCalled
    /\ disk = NoDisk
    /\ summary = Absent
    /\ report = NoReport
    /\ last = NoCall
    /\ hist = <<>>
    /\ series = NoSeries
    /\ frames = NotRead
    /\ running = NoneRunning

BA_categorize ==
    /\ grouped = NotCalled
    /\ grouped' = categorize_tx(tx, BA_cols)
    /\ UNCHANGED <<tx, disk, summary, report, last, hist, series, frames, running>>

CAP_categorize ==
    /\ grouped = NotCalled
    /\ grouped' = categorize_tx(tx, CAP_cols)
    /\ UNCHANGED <<tx, disk, summary, report, last, hist, series, frames, running>>

NextCat == BA_categorize \/ CAP_categorize

SpecCat == InitCat /\ [][NextCat]_vars

\* ------------------------------------------------ claims: categorize_tx
Returned == grouped.err = "none"
AmountCol == tx.cols[2]
ClassTotal == SumCol(tx.rows, AmountCol)

RECURSIVE SumOver(_, _)
SumOver(f, keys) ==
    IF keys = <<>> THEN 0 ELSE f[keys[1]] + SumOver(f, Tail(keys))

RECURSIVE FloatSumOver(_, _)
FloatSumOver(f, keys) ==
    IF keys = <<>> THEN Fin(0, 1) ELSE FloatAdd(f[keys[1]], FloatSumOver(f, Tail(keys)))

SumAbsPct == FloatSumOver([c \in DOMAIN grouped.pct |-> FloatAbs(grouped.pct[c])], grouped.index)
SumPct == FloatSumOver(grouped.pct, grouped.index)

\* the amounts of the records of tx that carry category c, added up one by one
RECURSIVE AmountOf(_, _)
AmountOf(c, i) ==
    IF i = 0 THEN 0
    ELSE AmountOf(c, i - 1) + (IF tx.rows[i]["Category"] = c THEN tx.rows[i][AmountCol] ELSE 0)

\* C5 as claimed: when the class total is non-zero, the absolute values of the
\* category percentages sum to 100, mixed signs included.
C5_AbsPctSumTo100 ==
    (Returned /\ ClassTotal # 0) => FloatEq(SumAbsPct, Fin(100, 1))

\* C5 as amended: when the class total is non-zero the signed percentages sum to
\* 100 (class total positive) or to -100 (class total negative), so the absolute
\* value of their sum is 100; their absolute values sum to 100 whenever no
\* category total has the sign opposite to the class total's.
C5_PctSumToSigned100 ==
    (Returned /\ ClassTotal # 0) =>
        /\ ClassTotal > 0 => FloatEq(SumPct, Fin(100, 1))
        /\ ClassTotal < 0 => FloatEq(SumPct, Fin(-100, 1))
        /\ (\A c \in DOMAIN grouped.amount : grouped.amount[c] * ClassTotal >= 0)
              => FloatEq(SumAbsPct, Fin(100, 1))

\* C5 witness: a summary of mixed-sign records with a negative class total
C5_MixedSignsReached ==
    /\ Returned
    /\ ClassTotal < 0
    /\ \E c \in DOMAIN grouped.amount : grouped.amount[c] > 0

\* C6 as claimed: when the amounts sum to zero, every category's percentage is
\* not-a-number, never infinite or finite.
C6_ZeroTotalAllNaN ==
    (Returned /\ ClassTotal = 0) => \A c \in DOMAIN grouped.pct : grouped.pct[c].k = "nan"

\* C7: the per-category totals add up to the sum of the raw amounts, and each
\* category's total is the sum of the amounts of exactly the records carrying it.
C7_Reconciliation ==
    Returned =>
        /\ SumOver(grouped.amount, grouped.index) = ClassTotal
        /\ DOMAIN grouped.amount = {tx.rows[i]["Category"] : i \in 1..Len(tx.rows)}
        /\ \A c \in DOMAIN grouped.amount : grouped.amount[c] = AmountOf(c, Len(tx.rows))

\* C7 witness: two records of one category and one of another were summarized
C7_GroupsReached ==
    /\ Returned
    /\ Len(tx.rows) = 3
    /\ Len(grouped.index) = 2
    /\ \E c \in DOMAIN grouped.amount : grouped.amount[c] = 2

\* C8: a record set without a category column (the empty DataFrame included) makes
\* categorize_tx fail with KeyError; it never returns a summary.
C8_NoCategoryRaises ==
    (grouped # NotCalled /\ ~HasCol(tx, "Category")) => (grouped.err = "KeyError")

\* C8 witness: categorize_tx was applied to pd.DataFrame() and raised KeyError
C8_EmptyFrameRaised ==
    tx = EmptyDataFrame /\ grouped.err = "KeyError"

\* ------------------------------------------- specification: the mains
\* a call of a main: the files after it, what it raised, what it was called with
Apply(r, tool, args) ==
    /\ summary' = r.summary
    /\ report' = r.report
    /\ last' = r.last @@ ("args" :> args)
    /\ hist' = IF r.last.wrote
               THEN Append(hist, [tool |-> tool, period |-> args.period])
               ELSE hist
    /\ UNCHANGED <<tx, grouped, disk, series, frames, running>>

BA_call ==
    \E a_tx_file \in TxPaths, a_period \in Periods, a_prev_bal \in PrevBalances :
        Apply(BA_main_body(a_tx_file, a_period, a_prev_bal), "budget_analysis",
              [tx_files |-> <<a_tx_file>>, period |-> a_period, prev_bal |-> a_prev_bal])

CAP_call ==
    \E tx_files \in SeqsUpTo(TxPaths, MaxFiles), a_period \in Periods :
        Apply(CAP_main_body(tx_files, a_period), "collate_all_periods",
              [tx_files |-> tx_files, period |-> a_period, prev_bal |-> Num(0)])

\* Successive runs of the two tools against one summary file and one report
\* file, in a directory holding the fixtures.
Init ==
    /\ tx = EmptyDataFrame
    /\ grouped = NotCalled
    /\ disk = Fixtures
    /\ summary = Absent
    /\ report = NoReport
    /\ last = NoCall
    /\ hist = <<>>
    /\ series = NoSeries
    /\ frames = NotRead
    /\ running = NoneRunning

BA_main == Len(hist) < MaxCalls /\ BA_call

CAP_main == Len(hist) < MaxCalls /\ CAP_call

Next == BA_main \/ CAP_main

Spec == Init /\ [][Next]_vars

\* ------------------------------------- specification: one period's run
\* One run of a tool on an export drawn from Exports, the summary file absent.
InitPeriod ==
    /\ tx = EmptyDataFrame
    /\ grouped = NotCalled
    /\ \E e \in Exports :
          disk = [p \in TxPaths |-> IF p = "Transactions.csv" THEN e ELSE NoFile]
    /\ summary = Absent
    /\ report = NoReport
    /\ last = NoCall
    /\ hist = <<>>
    /\ series = NoSeries
    /\ frames = NotRead
    /\ running = NoneRunning

BA_period == last = NoCall /\ BA_call

CAP_period == last = NoCall /\ CAP_call

NextPeriod == BA_period \/ CAP_period

SpecPeriod == InitPeriod /\ [][NextPeriod]_vars

\* ------------------------------- specification: the net worth recompute
\* The summary file as collate_all_periods leaves it after 0..MaxPeriods periods
\* (or as budget_analysis leaves it after one), then recomputes of the series.
PeriodName(i) == CASE i = 1 -> "Jan" [] i = 2 -> "Feb" [] i = 3 -> "Mar" [] OTHER -> "Apr"

PeriodInputs == [inc : Amounts, exp : 0..MaxAmt]

InitialNetWorths == {0, MaxAmt}

\* the grouped frame of one record
Grouped1(v) ==
    categorize_tx([cols |-> CAP_cols,
                   rows |-> <<("Category" :> "Gifts") @@ ("Amount [$]" :> v)>>], CAP_cols)

RECURSIVE Written(_)
Written(inputs) ==
    IF inputs = <<>> THEN Absent
    ELSE CAP_write_reports(Written(SubSeq(inputs, 1, Len(inputs) - 1)), NoReport,
                          PeriodName(Len(inputs)), Grouped1(inputs[Len(inputs)].inc),
                          Grouped1(inputs[Len(inputs)].exp), Grouped1(MaxAmt)).summary

SeriesFiles ==
    {Written(inputs) : inputs \in UNION {[1..n -> PeriodInputs] : n \in 0..MaxPeriods}}
    \cup {BA_write_reports(Absent, NoReport, "Jan", 0,
                           [cols |-> BA_cols, rows |-> <<>>],
                           [cols |-> BA_cols, rows |-> <<>>]).summary}

Totals(sf) == Cardinality({i \in 1..Len(sf.lines) :
                              sf.lines[i] # <<>> /\ sf.lines[i][1] = Str("Total")})

InitSeries ==
    /\ tx = EmptyDataFrame
    /\ grouped = NotCalled
    /\ disk = Fixtures
    /\ summary \in SeriesFiles
    /\ report = NoReport
    /\ last = NoCall
    /\ hist = <<>>
    /\ series = NoSeries
    /\ frames = NotRead
    /\ running = NoneRunning

CP_summarize ==
    /\ Totals(summary) < MaxRecompute
    /\ \E a_initial_net_worth \in InitialNetWorths :
          LET r == summarize_all_periods(a_initial_net_worth, summary)
          IN /\ summary' = r.summary
             /\ series' = r.ret
             /\ last' = Outcome("collate_periods.summarize_all_periods", r.err,
                                r.err = "none", r.warns, NoScalars)
                        @@ ("args" :> [tx_files |-> <<>>, period |-> "",
                                       prev_bal |-> Num(a_initial_net_worth)])
             /\ UNCHANGED <<tx, grouped, disk, report, hist, frames, running>>

NextSeries == CP_summarize

SpecSeries == InitSeries /\ [][NextSeries]_vars

\* ------------------------------------ specification: read_tx_file alone
\* One export of up to MaxRows physical rows is on disk; either tool's
\* read_tx_file is called once on one of the paths.
\* A column block of one physical row: both cells blank, both filled, the
\* category alone, the amount alone, or a category beside an amount cell that
\* holds the currency symbol and nothing else.
CellKinds == {"blank", "full", "category", "amount", "symbol"}

BlockKinds(k) ==
    IF k = 0 THEN CellKinds
    ELSE IF k = 1 THEN {"blank", "full", "symbol"}
    ELSE {"blank", "full"}

\* the cells of block k on physical row i; a filled amount is $i
BlockCells(k, kind, i) ==
    (DupCols(k)[1] :> IF kind \in {"blank", "amount"} THEN "" ELSE BlockCategory(k))
    @@ (DupCols(k)[2] :> IF kind \in {"blank", "category"} THEN <<>>
                         ELSE IF kind = "symbol" THEN <<"$">>
                         ELSE <<"$", DigitChar(i)>>)

RawRow(nblocks, kinds, i) ==
    [c \in ColSet(BlockCols(nblocks)) |->
        LET k == CHOOSE b \in 0..(nblocks - 1) : c \in ColSet(DupCols(b))
        IN BlockCells(k, kinds[k + 1], i)[c]]

RowKinds(nblocks) ==
    {kinds \in [1..nblocks -> CellKinds] : \A b \in 1..nblocks : kinds[b] \in BlockKinds(b - 1)}

ReadExports ==
    {[exists |-> TRUE, cols |-> BlockCols(nblocks),
      rows |-> [i \in 1..Len(ks) |-> RawRow(nblocks, ks[i], i)]] :
        ks \in SeqsUpTo(RowKinds(3), MaxRows), nblocks \in {3}}
    \cup {[exists |-> TRUE, cols |-> BlockCols(2),
           rows |-> <<RawRow(2, <<kind, "full">>, 1)>>] : kind \in CellKinds}

InitRead ==
    /\ tx = EmptyDataFrame
    /\ grouped = NotCalled
    /\ \E e \in ReadExports :
          disk = [p \in TxPaths |-> IF p = "Transactions.csv" THEN e ELSE NoFile]
    /\ summary = Absent
    /\ report = NoReport
    /\ last = NoCall
    /\ hist = <<>>
    /\ series = NoSeries
    /\ frames = NotRead
    /\ running = NoneRunning

BA_read ==
    /\ frames = NotRead
    /\ \E a_tx_file \in TxPaths :
          /\ frames' = BA_read_tx_file(a_tx_file)
          /\ last' = [NoCall EXCEPT !.op = "budget_analysis.read_tx_file",
                                    !.args.tx_files = <<a_tx_file>>]
    /\ UNCHANGED <<tx, grouped, disk, summary, report, hist, series, running>>

CAP_read ==
    /\ frames = NotRead
    /\ \E a_tx_file \in TxPaths :
          /\ frames' = CAP_read_tx_file(a_tx_file)
          /\ last' = [NoCall EXCEPT !.op = "collate_all_periods.read_tx_file",
                                    !.args.tx_files = <<a_tx_file>>]
    /\ UNCHANGED <<tx, grouped, disk, summary, report, hist, series, running>>

NextRead == BA_read \/ CAP_read

SpecRead == InitRead /\ [][NextRead]_vars

\* ------------------- specification: write_reports invocations in parallel
\* MaxProcs invocations of write_reports, of either tool, run at the same time
\* against one summary file that does not exist yet.  Each has computed its
\* scalars and goes through the three file operations of the code, one at a
\* time: os.path.exists, the header written through open(.., 'w') when the file
\* was seen absent, and the row written through open(.., 'a').  Nothing
\* orders the operations of different invocations.
Procs == 1..MaxProcs

Tools == {"budget_analysis", "collate_all_periods"}

HeaderOf(tool) == IF tool = "budget_analysis" THEN BA_header ELSE CAP_header

\* the summary row an invocation writes for its period
RowOf(tool, period) ==
    LET sf == IF tool = "budget_analysis"
              THEN BA_write_reports(Absent, NoReport, period, MaxAmt,
                                    BA_read_tx_file("Transactions.csv").income,
                                    BA_read_tx_file("Transactions.csv").expenses).summary
              ELSE CAP_write_reports(Absent, NoReport, period, Grouped1(MaxAmt),
                                     Grouped1(MaxAmt), Grouped1(0)).summary
    IN sf.lines[Len(sf.lines)]

InitConc ==
    /\ tx = EmptyDataFrame
    /\ grouped = NotCalled
    /\ disk = Fixtures
    /\ summary = Absent
    /\ report = NoReport
    /\ last = NoCall
    /\ hist = <<>>
    /\ series = NoSeries
    /\ frames = NotRead
    /\ running \in [Procs -> [pc : {"exists"}, absent : {FALSE}, tool : Tools,
                              period : Periods]]

\* if not os.path.exists(a_summary_file):
CheckExists(p) ==
    /\ running[p].pc = "exists"
    /\ running' = [running EXCEPT ![p].absent = ~summary.exists,
                                  ![p].pc = IF summary.exists THEN "row" ELSE "header"]
    /\ UNCHANGED <<tx, grouped, disk, summary, report, last, hist, series, frames>>

\* with open(a_summary_file, 'w') as sf: sf.write(header)
HeaderWrite(p) ==
    /\ running[p].pc = "header"
    /\ summary' = CreateWithHeader(summary, HeaderOf(running[p].tool))
    /\ running' = [running EXCEPT ![p].pc = "row"]
    /\ UNCHANGED <<tx, grouped, disk, report, last, hist, series, frames>>

\* with open(a_summary_file, 'a') as sf: sf.write(row); write_reports returns
RowAppend(p) ==
    /\ running[p].pc = "row"
    /\ summary' = AppendLine(summary, RowOf(running[p].tool, running[p].period))
    /\ running' = [running EXCEPT ![p].pc = "returned"]
    /\ hist' = Append(hist, [tool |-> running[p].tool, period |-> running[p].period])
    /\ UNCHANGED <<tx, grouped, disk, report, last, series, frames>>

NextConc == \E p \in Procs : CheckExists(p) \/ HeaderWrite(p) \/ RowAppend(p)

SpecConc == InitConc /\ [][NextConc]_vars

\* ---------------------------------------------------- claims: the mains
IsHeader(line) == line \in {BA_header, CAP_header}
Fields(tool) == IF tool = "budget_analysis" THEN Len(BA_header) ELSE Len(CAP_header)
LastRow == summary.lines[Len(summary.lines)]
ReadErrors == {"FileNotFoundError", "KeyError", "ValueError"}

\* C1: from an absent summary file, after n >= 1 write_reports calls that
\* returned, the file is the header once, as its first line, then exactly n data
\* rows in call order; the file exists exactly when a call has returned, and a
\* call that repeats a period label still adds a row.
C1_HeaderOnceThenRowsInCallOrder ==
    /\ summary.exists <=> Len(hist) >= 1
    /\ ~summary.exists => summary.lines = <<>>
    /\ summary.exists =>
          /\ IsHeader(summary.lines[1])
          /\ Len(summary.lines) = 1 + Len(hist)
          /\ \A i \in 1..Len(hist) :
                /\ ~IsHeader(summary.lines[i + 1])
                /\ summary.lines[i + 1][1] = Str(hist[i].period)
                /\ Len(summary.lines[i + 1]) = Fields(hist[i].tool)

\* C1 witness: two calls for the same period label returned
C1_SameLabelTwiceReached ==
    /\ Len(hist) = 2
    /\ hist[1].period = hist[2].period
    /\ Len(summary.lines) = 3

\* C3 as claimed: with total income <= 0 write_reports warns and records -inf as
\* the savings percentage; with total income > 0 it records
\* 100 * (income - expenses) / income.
C3_SentinelOnNonPositiveIncome ==
    last.wrote =>
        LET sc == last.scalars
        IN /\ sc.tot_inc <= 0 => (last.warns # {} /\ LastRow[6] = NegInf)
           /\ sc.tot_inc > 0 =>
                 LastRow[6] = Fmt2(NpDiv(100 * (sc.tot_inc - sc.tot_exp), sc.tot_inc))

\* C4 as claimed: with a savings block and net savings <= 0 write_reports warns
\* and records -inf as the savings utilization ratio; with net savings > 0 it
\* records 100 * utilized savings / net savings.
C4_SentinelOnNonPositiveNetSavings ==
    (last.wrote /\ last.op = "collate_all_periods.main") =>
        LET sc == last.scalars
            net == sc.tot_inc - sc.tot_exp
        IN /\ net <= 0 => (last.warns # {} /\ LastRow[7] = NegInf)
           /\ net > 0 => LastRow[7] = Fmt2(NpDiv(100 * sc.tot_sav, net))

\* C9 as claimed: every data row of the summary table has exactly the columns
\* of the table's header (an append of another schema fails and changes nothing).
C9_RowsMatchHeader ==
    summary.exists =>
        \A i \in 2..Len(summary.lines) : Len(summary.lines[i]) = Len(summary.lines[1])

\* C10: a main whose export is missing, or whose input fails to parse or to
\* categorize, raises that error (FileNotFoundError when the first file it
\* opens is missing) and persists nothing: the report file and the summary file
\* are as before, also when earlier files of the same call were read.
C10_FailedMainPersistsNothing ==
    [][ /\ (last'.err \in ReadErrors) =>
              (summary' = summary /\ report' = report /\ ~last'.wrote)
        /\ (last'.args.prev_bal.k # "str" /\
            \E i \in 1..Len(last'.args.tx_files) : ~disk[last'.args.tx_files[i]].exists) =>
              (last'.err \in ReadErrors /\ ~last'.wrote)
        /\ (last'.args.prev_bal.k # "str" /\ last'.args.tx_files # <<>> /\
            ~disk[last'.args.tx_files[1]].exists) =>
              last'.err = "FileNotFoundError"
      ]_vars

\* C10 witness: with both files written, a call that had read one export failed
\* on the next, missing one
C10_LaterFileMissingReached ==
    /\ last.err = "FileNotFoundError"
    /\ Len(last.args.tx_files) = 2
    /\ disk[last.args.tx_files[1]].exists
    /\ CAP_read_tx_file(last.args.tx_files[1]).err = "none"
    /\ summary.exists
    /\ report.exists

\* ------------------------------------ claims: the net worth recompute
Recomputed(l) == l.op = "collate_periods.summarize_all_periods" /\ l.err = "none"

\* C2 as claimed: summarize_all_periods called again on the same file with the
\* same initial net worth returns the series the call before it returned.
C2_RecomputeIdempotent ==
    [][(Recomputed(last) /\ Recomputed(last') /\ last'.args = last.args)
          => series' = series]_vars

\* ------------------------------------------ claims: the previous balance
\* C11: budget_analysis.main called with a previous balance that is no number
\* fails with the assertion's error whatever the transaction file is (so before
\* the file is read), leaves the report file and the summary file as they were
\* and adds no row.
C11_NonNumericBalanceRejected ==
    [][(last'.op = "budget_analysis.main" /\ last'.args.prev_bal.k = "str")
          => /\ last'.err = "AssertionError"
             /\ ~last'.wrote
             /\ summary' = summary
             /\ report' = report
             /\ hist' = hist]_vars

\* C11 witness: after a run that wrote both files, a call with the balance
\* 't9djafo' and a transaction file that does not exist was rejected
C11_RejectedBeforeMissingFileReached ==
    /\ last.op = "budget_analysis.main"
    /\ last.err = "AssertionError"
    /\ last.args.prev_bal = Str("t9djafo")
    /\ ~disk[last.args.tx_files[1]].exists
    /\ Len(hist) = 1
    /\ summary.exists

\* ---------------------------------------- claims: the net worth column
\* the period rows of the summary file as written: the lines between the
\* header and the first empty line
PeriodLines ==
    LET n == Len(summary.lines)
        stop == IF \E i \in 2..n : summary.lines[i] = <<>>
                THEN CHOOSE i \in 2..n :
                        summary.lines[i] = <<>> /\ \A j \in 2..(i - 1) : summary.lines[j] # <<>>
                ELSE n + 1
    IN SubSeq(summary.lines, 2, stop - 1)

\* income minus expenses of the first k period rows, in cents
RECURSIVE NetCents(_, _)
NetCents(lines, k) ==
    IF k = 0 THEN 0 ELSE NetCents(lines, k - 1) + lines[k][2].n - lines[k][3].n

\* the first recompute of a file of period rows has returned
FirstRecompute == Recomputed(last) /\ Totals(summary) = 1

\* C12: from a summary file of period rows r1..rn only, summarize_all_periods
\* returns one net worth value per period row, and the k-th value is the initial
\* net worth plus the income of r1..rk minus the expenses of r1..rk.
C12_NetWorthIsRunningBalance ==
    FirstRecompute =>
        /\ Len(series.net_worth) = Len(PeriodLines)
        /\ Len(series.rows) = Len(PeriodLines)
        /\ \A k \in 1..Len(PeriodLines) :
              /\ series.rows[k][1] = PeriodLines[k][1]
              /\ FloatEq(series.net_worth[k],
                         Fin(100 * last.args.prev_bal.n + NetCents(PeriodLines, k), 100))

\* C12 witness: two period rows with income and expenses in the second, and an
\* initial net worth other than 0
C12_TwoPeriodsReached ==
    /\ FirstRecompute
    /\ Len(PeriodLines) = 2
    /\ PeriodLines[2][2].n # 0
    /\ PeriodLines[2][3].n # 0
    /\ PeriodLines[1][2].n # PeriodLines[1][3].n
    /\ last.args.prev_bal.n # 0

\* ------------------------------------------------ claims: read_tx_file
\* the export read_tx_file was called on
RawRead == disk[last.args.tx_files[1]]

\* the record sets a tool's read_tx_file returns, with the block each came from
\* and the name of its amount column
ReturnedSets ==
    IF last.op = "budget_analysis.read_tx_file"
    THEN {[block |-> 0, df |-> frames.expenses, amt |-> "Amount"],
          [block |-> 1, df |-> frames.income, amt |-> "Amount"]}
    ELSE {[block |-> 0, df |-> frames.expenses, amt |-> "Amount [$]"],
          [block |-> 1, df |-> frames.income, amt |-> "Amount [$]"],
          [block |-> 2, df |-> frames.savings, amt |-> "Amount [$]"]}

\* the physical rows whose block k has a category and an amount, in source order
PresentRows(k) ==
    SelectSeq([i \in 1..Len(RawRead.rows) |-> i],
              LAMBDA i : /\ RawRead.rows[i][DupCols(k)[1]] # ""
                         /\ RawRead.rows[i][DupCols(k)[2]] # <<>>)

\* C13 as claimed: each record set read_tx_file returns holds exactly the rows
\* of its own block whose category and amount are both present, in source
\* order, whatever the other blocks hold on the same physical row, and every
\* returned record has a category and a numeric amount.
C13_RecordsOfOwnBlockAllNumeric ==
    frames.err = "none" =>
        \A s \in ReturnedSets :
            /\ Len(s.df.rows) = Len(PresentRows(s.block))
            /\ \A j \in 1..Len(s.df.rows) :
                  /\ s.df.rows[j]["Category"] = RawRead.rows[PresentRows(s.block)[j]][DupCols(s.block)[1]]
                  /\ s.df.rows[j]["Category"] # ""
                  /\ s.amt \in DOMAIN s.df.rows[j]

\* ------------------------------------- claims: the order of the summary
\* the place of a category name's initial in the alphabet
AlphaRank(c) == CASE c = "Gifts" -> 7 [] c = "Utilities" -> 21

\* the categories the records of tx carry
CategoriesOf(df) == {df.rows[i]["Category"] : i \in 1..Len(df.rows)}

\* C14: categorize_tx returns one entry per distinct category of its input, no
\* key twice, the keys in ascending order of the category names whatever the
\* order in which the categories first appear among the records.
C14_OneEntryPerCategorySorted ==
    Returned =>
        /\ {grouped.index[i] : i \in 1..Len(grouped.index)} = CategoriesOf(tx)
        /\ Len(grouped.index) = Cardinality(CategoriesOf(tx))
        /\ DOMAIN grouped.amount = CategoriesOf(tx)
        /\ DOMAIN grouped.pct = CategoriesOf(tx)
        /\ \A i, j \in 1..Len(grouped.index) :
              i < j => AlphaRank(grouped.index[i]) < AlphaRank(grouped.index[j])

\* C14 witness: the later category of the alphabet appears first among the
\* records, and a category appears twice
C14_UnsortedInputReached ==
    /\ Returned
    /\ Len(tx.rows) = 3
    /\ tx.rows[1]["Category"] = "Utilities"
    /\ tx.rows[2]["Category"] = "Gifts"
    /\ tx.rows[3]["Category"] = "Utilities"
    /\ grouped.index = <<"Gifts", "Utilities">>

\* ------------------------------------- claims: the scalars of a period
\* the amount a report line records, in cents
ReportCents(i) == report.lines[i][2].n

\* C15: the scalars write_reports records for a period satisfy net savings =
\* total income - total expenses; in collate_all_periods, unutilized savings =
\* net savings - utilized savings; in budget_analysis, net worth = previous
\* balance + net savings.  The report file and the summary row carry them.
C15_ScalarIdentities ==
    last.wrote =>
        /\ last.scalars.net_sav = last.scalars.tot_inc - last.scalars.tot_exp
        /\ last.op = "budget_analysis.main" =>
              /\ ReportCents(5) = ReportCents(3) - ReportCents(4)
              /\ ReportCents(6) = ReportCents(2) + ReportCents(5)
              /\ ReportCents(2) = 100 * last.args.prev_bal.n
              /\ LastRow[4].n = LastRow[2].n - LastRow[3].n
              /\ LastRow[5].n = ReportCents(6)
              /\ LastRow[2].n = 100 * last.scalars.tot_inc
              /\ LastRow[3].n = 100 * last.scalars.tot_exp
        /\ last.op = "collate_all_periods.main" =>
              /\ ReportCents(4) = ReportCents(2) - ReportCents(3)
              /\ ReportCents(6) = ReportCents(4) - ReportCents(5)
              /\ LastRow[5].n = LastRow[2].n - LastRow[3].n - LastRow[4].n
              /\ LastRow[2].n = 100 * last.scalars.tot_inc
              /\ LastRow[3].n = 100 * last.scalars.tot_exp
              /\ LastRow[4].n = 100 * last.scalars.tot_sav

\* C15 witness: income 1500 and expenses 5460 were recorded by budget_analysis
\* with net savings -3960 and a net worth below the previous balance
C15_Income1500Expenses5460Reached ==
    /\ last.wrote
    /\ last.op = "budget_analysis.main"
    /\ last.scalars.tot_inc = 1500
    /\ last.scalars.tot_exp = 5460
    /\ ReportCents(5) = -396000
    /\ ReportCents(6) = 100 * last.args.prev_bal.n - 396000

\* --------------------------------- claims: invocations in parallel
\* the rows of the invocations that returned, from the i-th on, in the order
\* they returned
RowsFrom(i) ==
    [j \in 1..(Len(hist) - i + 1) |-> RowOf(hist[i + j - 1].tool, hist[i + j - 1].period)]

AllReturned == \A p \in Procs : running[p].pc = "returned"

\* C16: the header check and the header write are separate steps, and the
\* header is written through a truncating open.  So the summary file is at any
\* moment one header followed by the rows of the invocations that returned
\* since the last header write, in the order they returned: a row may be
\* missing from it although its invocation returned, and what is missing is
\* always the rows written before the last header write.
C16_FileIsHeaderThenLatestRows ==
    summary.exists =>
        /\ summary.lines # <<>>
        /\ IsHeader(summary.lines[1])
        /\ \E i \in 1..(Len(hist) + 1) : Tail(summary.lines) = RowsFrom(i)

\* C16 witness: both invocations saw the file absent and both returned, and the
\* file holds the header and the row of the second to return only; the row for
\* the period of the first is not in it
C16_RowLostReached ==
    /\ AllReturned
    /\ \A p \in Procs : running[p].absent
    /\ Len(hist) = MaxProcs
    /\ hist[1].period # hist[Len(hist)].period
    /\ Len(summary.lines) = 2
    /\ summary.lines[2] = RowOf(hist[Len(hist)].tool, hist[Len(hist)].period)
    /\ \A i \in 1..Len(summary.lines) : summary.lines[i] # RowOf(hist[1].tool, hist[1].period)

=============================================================================
